---- MODULE Spec2Model ----
(***************************************************************************)
(* Control pipeline of the softmax accelerator                              *)
(* (accelerators/catapult_hls/softmax/src/softmax.cpp).                     *)
(*                                                                          *)
(* Four SystemC threads: config_accelerator, load_input, compute_kernel     *)
(* and store_output.  Every thread is modelled by a record holding its      *)
(* position (pc) and its local variables; one action is the code a thread   *)
(* runs between two suspension points.  The threads interleave freely.      *)
(***************************************************************************)
EXTENDS Integers, Sequences, FiniteSets, TLC

\* Capacity of a chunk buffer (PLM_SIZE of softmax.hpp), scaled down.
PLM_SIZE == 3

\* Largest batch count the configuration source submits.
MaxBatch == 3

\* Width in bits of the model's uint32_t, scaled down so that the offset
\* arithmetic can wrap inside the explored configurations.
OffsetBits == 3

UINT32_MOD == 2 ^ OffsetBits

\* conf_info_t values the configuration source may hold: every valid size
\* (0 .. PLM_SIZE-1) and two invalid ones (PLM_SIZE and PLM_SIZE+1).
Sizes == 0 .. (PLM_SIZE + 1)
Batches == 0 .. MaxBatch
ConfInfo == [size : Sizes, batch : Batches]

\* Indices of a plm_t<T, PLM_SIZE>::data array.
Slots == 0 .. (PLM_SIZE - 1)

\* Values an element of a default-initialised (never written) plm_t local
\* may hold: the declaration leaves it indeterminate.  Two values stand for
\* them, told apart from every word a transfer delivers (those are >= 0).
UninitWords == {-1, -2}
UninitPlm == {[i \in Slots |-> w] : w \in UninitWords}

\* Value of plm_in before its first write: no word a transfer delivers.
ResetPlm == [i \in Slots |-> -3]

\* Value of plm_out before its first write: no output of compute().
ResetPlmOut == [i \in Slots |-> <<"reset", i, ResetPlm>>]

VARIABLES
    conf_info,      \* external configuration registers (sc_in<conf_info_t>)
    conf_done,      \* external "configuration submitted" input
    done,           \* ready flag driven by config_accelerator
    acc_done,       \* completion output driven by store_output
    debug,          \* diagnostic register driven by load_input
    config,         \* config_accelerator thread: [pc]
    load,           \* load_input thread
    comp,           \* compute_kernel thread
    store,          \* store_output thread
    input_ready,    \* handshake load -> compute
    output_ready,   \* handshake compute -> store
    plm_in,         \* shared input chunk buffer
    plm_out,        \* shared output chunk buffer
    dma_read_ctrl,  \* read descriptors issued so far
    dma_read_chnl,  \* addresses of the data words read so far
    dma_write_ctrl, \* write descriptors issued so far
    dma_write_chnl, \* data words written so far
    compute_calls,  \* number of compute() invocations so far
    acc_pulses,     \* number of times acc_done was raised
    conf_changes    \* number of times conf_info changed value (history)

vars == <<conf_info, conf_done, done, acc_done, debug, config, load, comp,
          store, input_ready, output_ready, plm_in, plm_out, dma_read_ctrl,
          dma_read_chnl, dma_write_ctrl, dma_write_chnl, compute_calls,
          acc_pulses, conf_changes>>

envVars == <<conf_info, conf_done, conf_changes>>
dmaVars == <<dma_read_ctrl, dma_read_chnl, dma_write_ctrl, dma_write_chnl>>
plmVars == <<plm_in, plm_out>>
hsVars == <<input_ready, output_ready>>

-----------------------------------------------------------------------------
(* Pure helpers *)

\* Mutant: the check misses size = PLM_SIZE.
ConfigInvalid_offbyone(size) == size > PLM_SIZE

\* size >= PLM_SIZE: the configuration check every stage makes.
ConfigInvalid(size) == size >= PLM_SIZE

\* dma_info_t dma_info(offset, size, 32)
dma_info_t(index, length, width) ==
    [index |-> index, length |-> length, size |-> width]

\* Mutant: the offset advances by one element instead of by size.
NextOffset_unit(offset, size) == (offset + 1) % UINT32_MOD

\* offset += size, on a uint32_t
NextOffset_stale(offset, size) == offset

NextOffset(offset, size) == (offset + size) % UINT32_MOD

\* Mutant: the store offset starts at 0 like the load offset.
StoreInitOffset_zero(size, batch) == 0

\* Mutant: the output region starts after the first input chunk.
StoreInitOffset_size(size, batch) == size % UINT32_MOD

\* uint32_t offset = size * batch (store_output)
StoreInitOffset(size, batch) == (size * batch) % UINT32_MOD

\* The 64-bit word the read channel delivers for one address: the payload
\* in bits 31..0, bits 63..32 not driven by this design.
DmaWord(addr) == [hi |-> "any", lo |-> addr]

\* data_bv.range(31,0): keep the low half of a transfer word.
\* Mutant: the payload bits are dropped.
LoadSlice_zero(word) == 0

LoadSlice(word) == word.lo

\* Mutant: the upper half of the word is left as it was.
StoreWord_nomarker(data) == [hi |-> "any", lo |-> data]

\* data_bv.range(63,32) = 0xdeadbeef; data_bv.range(31,0) = data
StoreWord(data) == [hi |-> "deadbeef", lo |-> data]

\* ac_math::ac_softmax_pwl over the whole PLM_SIZE extent: every output
\* element depends on its index and on the complete input buffer.
compute(input) == [i \in Slots |-> <<"softmax", i, input>>]

\* Mutant: the loop stops one batch early.
BatchLoopRuns_short(b, batch) == b + 1 < batch

\* Mutant: the loop body runs once before the condition is tested.
BatchLoopRuns_dowhile(b, batch) == b < batch \/ b = 0

\* Condition of the three batch loops: for (b = 0; b < batch; b++)
BatchLoopRuns(b, batch) == b < batch

\* Mutant: batch is taken from the size field.
ReadConfig_swapped(ci) == [size |-> ci.size, batch |-> ci.size]

\* conf_info_t config = conf_info.read(); size = config.size;
\* batch = config.batch
ReadConfig(ci) == [size |-> ci.size, batch |-> ci.batch]

\* Inner-loop condition of LOAD_DATA_INNER_LOOP / STORE_DATA_INNER_LOOP:
\* for (i = 0; i < PLM_SIZE; i++) { if (i >= size) break; ... }
\* Mutant: the inner loop runs over the whole capacity.
InnerLoopRuns_full(i, size) == i < PLM_SIZE

InnerLoopRuns(i, size) == i < PLM_SIZE /\ ~(i >= size)

-----------------------------------------------------------------------------
(* Handshake channel (handshake_t): req() raises the token and returns once *)
(* the consumer has taken it; ack() waits for the token and clears it.      *)

HsReset == [token |-> FALSE, nreq |-> 0, nack |-> 0]

HsReq(ch) == [ch EXCEPT !.token = TRUE, !.nreq = @ + 1]

HsReqReturns(ch) == ~ch.token

HsAckReady(ch) == ch.token

HsAck(ch) == [ch EXCEPT !.token = FALSE, !.nack = @ + 1]

-----------------------------------------------------------------------------
(* History read off the state: which iteration of its producer wrote the   *)
(* value a shared buffer holds (-1 before the first write).                 *)

\* Load writes plm_in once per iteration, right before its request.
plm_in_iter ==
    load.b + (IF load.pc \in {"handshake", "req_wait"} THEN 1 ELSE 0) - 1

\* compute_kernel writes plm_out once per compute() invocation.
plm_out_iter == compute_calls - 1

-----------------------------------------------------------------------------
Init ==
    /\ conf_info \in ConfInfo
    /\ conf_done = FALSE
    /\ done = FALSE
    /\ acc_done = FALSE
    /\ debug = 0
    /\ config = [pc |-> "reset"]
    /\ load = [pc |-> "reset", size |-> 0, batch |-> 0, epoch |-> 0,
               offset |-> 0, b |-> 0, i |-> 0, plm_local |-> ResetPlm]
    /\ comp = [pc |-> "reset", size |-> 0, batch |-> 0, epoch |-> 0, b |-> 0,
               plm_local_in |-> ResetPlm, in_iter |-> -1]
    /\ store = [pc |-> "reset", size |-> 0, batch |-> 0, epoch |-> 0,
                offset |-> 0, b |-> 0, i |-> 0, plm_local |-> ResetPlmOut,
                out_iter |-> -1]
    /\ input_ready = HsReset
    /\ output_ready = HsReset
    /\ plm_in = ResetPlm
    /\ plm_out = ResetPlmOut
    /\ dma_read_ctrl = <<>>
    /\ dma_read_chnl = <<>>
    /\ dma_write_ctrl = <<>>
    /\ dma_write_chnl = <<>>
    /\ compute_calls = 0
    /\ acc_pulses = 0
    /\ conf_changes = 0

-----------------------------------------------------------------------------
(* Environment *)

\* The external conf_done input changes value.
env_conf_done ==
    /\ conf_done' = ~conf_done
    /\ UNCHANGED <<conf_info, conf_changes, done, acc_done, debug, config, load, comp,
                   store, hsVars, plmVars, dmaVars, compute_calls, acc_pulses>>

\* A stage that has not read conf_info yet.
BeforeConfig(stage) == stage.pc \in {"reset", "config"}

\* One external register write changes conf_info while the accelerator
\* runs: either the size register or the batch register takes a new value.
\* Only a write made after the gate has opened and before the last stage has
\* read conf_info is kept: an earlier one is another initial value, a later
\* one is read by nobody.
env_conf_info ==
    /\ done
    /\ BeforeConfig(load) \/ BeforeConfig(comp) \/ BeforeConfig(store)
    /\ conf_changes = 0
    /\ \E ci \in ConfInfo \ {conf_info} :
         /\ ci.size = conf_info.size \/ ci.batch = conf_info.batch
         /\ conf_info' = ci
    /\ conf_changes' = conf_changes + 1
    /\ UNCHANGED <<conf_done, done, acc_done, debug, config, load, comp,
                   store, hsVars, plmVars, dmaVars, compute_calls, acc_pulses>>

-----------------------------------------------------------------------------
(* config_accelerator *)

\* done.write(false); wait();
config_accelerator_reset ==
    /\ config.pc = "reset"
    /\ done' = FALSE
    /\ config' = [config EXCEPT !.pc = "poll"]
    /\ UNCHANGED <<envVars, acc_done, debug, load, comp, store, hsVars,
                   plmVars, dmaVars, compute_calls, acc_pulses>>

\* Mutant: done follows conf_done on every tick, also after it was set.
CONFIG_LOOP_rearm ==
    /\ config.pc \in {"poll", "parked"}
    /\ done' = conf_done
    /\ config' = [config EXCEPT !.pc = IF conf_done THEN "parked" ELSE @]
    /\ UNCHANGED <<envVars, acc_done, debug, load, comp, store, hsVars,
                   plmVars, dmaVars, compute_calls, acc_pulses>>

\* CONFIG_LOOP leaves on the first tick that reads conf_done true;
\* done.write(true); then CONFIG_DONE_LOOP forever.
CONFIG_LOOP ==
    /\ config.pc = "poll"
    /\ conf_done
    /\ done' = TRUE
    /\ config' = [config EXCEPT !.pc = "parked"]
    /\ UNCHANGED <<envVars, acc_done, debug, load, comp, store, hsVars,
                   plmVars, dmaVars, compute_calls, acc_pulses>>

\* Mutant: the stages do not wait for the gate.
wait_for_config_open == TRUE

\* wait_for_config(): while (!done.read()) wait();
wait_for_config == done


-----------------------------------------------------------------------------
(* Handshake wrappers and reset functions *)

\* reset_req() drives the producer's side low; reset_ack() the consumer's.
HsResetReq(ch) == [ch EXCEPT !.token = FALSE]
HsResetAck(ch) == ch

\* Each wrapper is given the two channels (ir = input_ready, or =
\* output_ready) and yields the channels after the call.  For an ack()
\* wrapper "ready" tells whether the call can complete in this state; for a
\* req() wrapper "returns" tells whether a call that has raised its request
\* returns in this state.

load_compute_handshake_noblock(ir, or) ==
    [ir |-> HsReq(ir), or |-> or, returns |-> TRUE]

\* load_compute_handshake(): input_ready.req()
load_compute_handshake(ir, or) ==
    [ir |-> HsReq(ir), or |-> or, returns |-> HsReqReturns(ir)]

\* Mutant: Transform Stage waits on the channel towards Store Stage.
compute_load_handshake_wrong(ir, or) ==
    [ir |-> ir, or |-> HsAck(or), ready |-> HsAckReady(or)]

\* compute_load_handshake(): input_ready.ack()
compute_load_handshake(ir, or) ==
    [ir |-> HsAck(ir), or |-> or, ready |-> HsAckReady(ir)]

\* Mutant: the request goes to the channel of the other boundary.
compute_store_handshake_noblock(ir, or) ==
    [ir |-> ir, or |-> HsReq(or), returns |-> TRUE]

compute_store_handshake_wrong(ir, or) ==
    [ir |-> HsReq(ir), or |-> or, returns |-> HsReqReturns(ir)]

\* compute_store_handshake(): output_ready.req()
compute_store_handshake(ir, or) ==
    [ir |-> ir, or |-> HsReq(or), returns |-> HsReqReturns(or)]

\* Mutant: the acknowledge takes the request of the other boundary.
store_compute_handshake_wrong(ir, or) ==
    [ir |-> HsAck(ir), or |-> or, ready |-> HsAckReady(ir)]

\* store_compute_handshake(): output_ready.ack()
store_compute_handshake(ir, or) ==
    [ir |-> ir, or |-> HsAck(or), ready |-> HsAckReady(or)]

\* accelerator_done(): acc_done.write(true); wait(); acc_done.write(false);
\* the part before the wait().
accelerator_done_raise ==
    /\ acc_done' = TRUE
    /\ acc_pulses' = acc_pulses + 1

-----------------------------------------------------------------------------
(* load_input *)

\* reset_load_input(); debug = 0; wait();
load_input_reset ==
    /\ load.pc = "reset"
    /\ input_ready' = HsResetReq(input_ready)
    /\ debug' = 0
    /\ load' = [load EXCEPT !.pc = "config"]
    /\ UNCHANGED <<envVars, done, acc_done, config, comp, store, output_ready,
                   plmVars, dmaVars, compute_calls, acc_pulses>>

\* wait_for_config(); config = conf_info.read(); the size check; offset = 0.
load_input_config ==
    /\ load.pc = "config"
    /\ wait_for_config
    /\ LET cfg == ReadConfig(conf_info)
       IN IF ConfigInvalid(cfg.size)
            THEN /\ debug' = 1
                 /\ load' = [load EXCEPT !.pc = "parked",
                                         !.size = cfg.size,
                                         !.batch = cfg.batch,
                                         !.epoch = conf_changes]
            ELSE /\ debug' = debug
                 /\ load' = [load EXCEPT !.pc = "batch",
                                         !.size = cfg.size,
                                         !.batch = cfg.batch,
                                         !.epoch = conf_changes,
                                         !.offset = 0,
                                         !.b = 0]
    /\ UNCHANGED <<envVars, done, acc_done, config, comp, store, hsVars,
                   plmVars, dmaVars, compute_calls, acc_pulses>>

\* LOAD_BATCH_LOOP head with b < batch: build the descriptor, advance the
\* offset, DMA_WRITE(dma_info, dma_read_ctrl), declare plm_local.
LOAD_BATCH_LOOP ==
    /\ load.pc = "batch"
    /\ BatchLoopRuns(load.b, load.batch)
    /\ dma_read_ctrl' = Append(dma_read_ctrl,
                               dma_info_t(load.offset, load.size, 32))
    /\ \E fresh \in UninitPlm :
         load' = [load EXCEPT !.pc = "data",
                              !.offset = NextOffset(load.offset, load.size),
                              !.i = 0,
                              !.plm_local = fresh]
    /\ UNCHANGED <<envVars, done, acc_done, debug, config, comp, store, hsVars,
                   plmVars, dma_read_chnl, dma_write_ctrl, dma_write_chnl,
                   compute_calls, acc_pulses>>

\* One iteration of LOAD_DATA_INNER_LOOP: DMA_READ one word, keep bits 31..0.
\* The word read is the one at the last descriptor's index + i.
LOAD_DATA_INNER_LOOP ==
    /\ load.pc = "data"
    /\ InnerLoopRuns(load.i, load.size)
    /\ LET d == dma_read_ctrl[Len(dma_read_ctrl)]
           addr == (d.index + load.i) % UINT32_MOD
       IN /\ dma_read_chnl' = Append(dma_read_chnl, addr)
          /\ load' = [load EXCEPT
                        !.plm_local[load.i] = LoadSlice(DmaWord(addr)),
                        !.i = load.i + 1]
    /\ UNCHANGED <<envVars, done, acc_done, debug, config, comp, store, hsVars,
                   plmVars, dma_read_ctrl, dma_write_ctrl, dma_write_chnl,
                   compute_calls, acc_pulses>>

\* Inner loop left: plm_in.write(plm_local)
load_input_write_plm ==
    /\ load.pc = "data"
    /\ ~InnerLoopRuns(load.i, load.size)
    /\ plm_in' = load.plm_local
    /\ load' = [load EXCEPT !.pc = "handshake"]
    /\ UNCHANGED <<envVars, done, acc_done, debug, config, comp, store, hsVars,
                   plm_out, dmaVars, compute_calls, acc_pulses>>

\* load_compute_handshake(): the request is raised
load_input_req ==
    /\ load.pc = "handshake"
    /\ LET hs == load_compute_handshake(input_ready, output_ready)
       IN /\ input_ready' = hs.ir
          /\ output_ready' = hs.or
    /\ load' = [load EXCEPT !.pc = "req_wait"]
    /\ UNCHANGED <<envVars, done, acc_done, debug, config, comp, store,
                   plmVars, dmaVars, compute_calls, acc_pulses>>

\* load_compute_handshake() returns; b++
load_input_req_done ==
    /\ load.pc = "req_wait"
    /\ load_compute_handshake(input_ready, output_ready).returns
    /\ load' = [load EXCEPT !.pc = "batch", !.b = load.b + 1]
    /\ UNCHANGED <<envVars, done, acc_done, debug, config, comp, store, hsVars,
                   plmVars, dmaVars, compute_calls, acc_pulses>>

\* LOAD_BATCH_LOOP left: process_done()
load_input_done ==
    /\ load.pc = "batch"
    /\ ~BatchLoopRuns(load.b, load.batch)
    /\ load' = [load EXCEPT !.pc = "parked"]
    /\ UNCHANGED <<envVars, done, acc_done, debug, config, comp, store, hsVars,
                   plmVars, dmaVars, compute_calls, acc_pulses>>

-----------------------------------------------------------------------------
(* compute_kernel *)

\* reset_compute_kernel(); wait();
compute_kernel_reset ==
    /\ comp.pc = "reset"
    /\ input_ready' = HsResetAck(input_ready)
    /\ output_ready' = HsResetReq(output_ready)
    /\ comp' = [comp EXCEPT !.pc = "config"]
    /\ UNCHANGED <<envVars, done, acc_done, debug, config, load, store,
                   plmVars, dmaVars, compute_calls, acc_pulses>>

\* wait_for_config(); config = conf_info.read(); the size check.
compute_kernel_config ==
    /\ comp.pc = "config"
    /\ wait_for_config
    /\ LET cfg == ReadConfig(conf_info)
       IN comp' = [comp EXCEPT
                     !.pc = IF ConfigInvalid(cfg.size)
                              THEN "parked" ELSE "batch",
                     !.size = cfg.size,
                     !.batch = cfg.batch,
                     !.epoch = conf_changes,
                     !.b = 0]
    /\ UNCHANGED <<envVars, done, acc_done, debug, config, load, store, hsVars,
                   plmVars, dmaVars, compute_calls, acc_pulses>>

\* COMPUTE_BATCH_LOOP head with b < batch: compute_load_handshake() and,
\* with no suspension point after its return, plm_local_in = plm_in.read()
COMPUTE_BATCH_LOOP ==
    /\ comp.pc = "batch"
    /\ BatchLoopRuns(comp.b, comp.batch)
    /\ compute_load_handshake(input_ready, output_ready).ready
    /\ LET hs == compute_load_handshake(input_ready, output_ready)
       IN /\ input_ready' = hs.ir
          /\ output_ready' = hs.or
    /\ comp' = [comp EXCEPT !.pc = "compute",
                            !.plm_local_in = plm_in,
                            !.in_iter = plm_in_iter]
    /\ UNCHANGED <<envVars, done, acc_done, debug, config, load, store,
                   plmVars, dmaVars, compute_calls, acc_pulses>>

\* compute(&plm_local_in, &plm_local_out); plm_out.write(plm_local_out)
compute_kernel_compute ==
    /\ comp.pc = "compute"
    /\ plm_out' = compute(comp.plm_local_in)
    /\ compute_calls' = compute_calls + 1
    /\ comp' = [comp EXCEPT !.pc = "handshake"]
    /\ UNCHANGED <<envVars, done, acc_done, debug, config, load, store, hsVars,
                   plm_in, dmaVars, acc_pulses>>

\* compute_store_handshake(): the request is raised
compute_kernel_req ==
    /\ comp.pc = "handshake"
    /\ LET hs == compute_store_handshake(input_ready, output_ready)
       IN /\ input_ready' = hs.ir
          /\ output_ready' = hs.or
    /\ comp' = [comp EXCEPT !.pc = "req_wait"]
    /\ UNCHANGED <<envVars, done, acc_done, debug, config, load, store,
                   plmVars, dmaVars, compute_calls, acc_pulses>>

\* compute_store_handshake() returns; b++
compute_kernel_req_done ==
    /\ comp.pc = "req_wait"
    /\ compute_store_handshake(input_ready, output_ready).returns
    /\ comp' = [comp EXCEPT !.pc = "batch", !.b = comp.b + 1,
                            !.plm_local_in = ResetPlm, !.in_iter = -1]
    /\ UNCHANGED <<envVars, done, acc_done, debug, config, load, store, hsVars,
                   plmVars, dmaVars, compute_calls, acc_pulses>>

\* COMPUTE_BATCH_LOOP left: process_done()
compute_kernel_done ==
    /\ comp.pc = "batch"
    /\ ~BatchLoopRuns(comp.b, comp.batch)
    /\ comp' = [comp EXCEPT !.pc = "parked"]
    /\ UNCHANGED <<envVars, done, acc_done, debug, config, load, store, hsVars,
                   plmVars, dmaVars, compute_calls, acc_pulses>>


-----------------------------------------------------------------------------
(* store_output *)

\* reset_store_output(); wait();
store_output_reset ==
    /\ store.pc = "reset"
    /\ output_ready' = HsResetAck(output_ready)
    /\ acc_done' = FALSE
    /\ store' = [store EXCEPT !.pc = "config"]
    /\ UNCHANGED <<envVars, done, debug, config, load, comp, input_ready,
                   plmVars, dmaVars, compute_calls, acc_pulses>>

\* wait_for_config(); config = conf_info.read(); the size check, which on an
\* invalid size starts accelerator_done(); offset = size * batch.
store_output_config ==
    /\ store.pc = "config"
    /\ wait_for_config
    /\ LET cfg == ReadConfig(conf_info)
       IN IF ConfigInvalid(cfg.size)
            THEN /\ accelerator_done_raise
                 /\ store' = [store EXCEPT !.pc = "pulse",
                                           !.size = cfg.size,
                                           !.batch = cfg.batch,
                                           !.epoch = conf_changes]
            ELSE /\ UNCHANGED <<acc_done, acc_pulses>>
                 /\ store' = [store EXCEPT
                                !.pc = "batch",
                                !.size = cfg.size,
                                !.batch = cfg.batch,
                                !.epoch = conf_changes,
                                !.offset = StoreInitOffset(cfg.size,
                                                           cfg.batch),
                                !.b = 0]
    /\ UNCHANGED <<envVars, done, debug, config, load, comp, hsVars, plmVars,
                   dmaVars, compute_calls>>

\* STORE_BATCH_LOOP head with b < batch: store_compute_handshake()
STORE_BATCH_LOOP ==
    /\ store.pc = "batch"
    /\ BatchLoopRuns(store.b, store.batch)
    /\ store_compute_handshake(input_ready, output_ready).ready
    /\ LET hs == store_compute_handshake(input_ready, output_ready)
       IN /\ input_ready' = hs.ir
          /\ output_ready' = hs.or
    /\ store' = [store EXCEPT !.pc = "ctrl"]
    /\ UNCHANGED <<envVars, done, acc_done, debug, config, load, comp,
                   plmVars, dmaVars, compute_calls, acc_pulses>>

\* Build the descriptor, advance the offset, DMA_WRITE(dma_info,
\* dma_write_ctrl), a blocking transfer at which the thread suspends; once
\* the descriptor is taken, plm_local = plm_out.read()
store_output_ctrl ==
    /\ store.pc = "ctrl"
    /\ dma_write_ctrl' = Append(dma_write_ctrl,
                                dma_info_t(store.offset, store.size, 32))
    /\ store' = [store EXCEPT
                   !.pc = "data",
                   !.offset = NextOffset(store.offset, store.size),
                   !.i = 0,
                   !.plm_local = plm_out,
                   !.out_iter = plm_out_iter]
    /\ UNCHANGED <<envVars, done, acc_done, debug, config, load, comp, hsVars,
                   plmVars, dma_read_ctrl, dma_read_chnl, dma_write_chnl,
                   compute_calls, acc_pulses>>

\* One iteration of STORE_DATA_INNER_LOOP: DMA_WRITE one tagged word.
STORE_DATA_INNER_LOOP ==
    /\ store.pc = "data"
    /\ InnerLoopRuns(store.i, store.size)
    /\ dma_write_chnl' = Append(dma_write_chnl,
                                StoreWord(store.plm_local[store.i]))
    /\ store' = [store EXCEPT !.i = store.i + 1]
    /\ UNCHANGED <<envVars, done, acc_done, debug, config, load, comp, hsVars,
                   plmVars, dma_read_ctrl, dma_read_chnl, dma_write_ctrl,
                   compute_calls, acc_pulses>>

\* Inner loop left: b++
store_output_next ==
    /\ store.pc = "data"
    /\ ~InnerLoopRuns(store.i, store.size)
    /\ store' = [store EXCEPT !.pc = "batch", !.b = store.b + 1]
    /\ UNCHANGED <<envVars, done, acc_done, debug, config, load, comp, hsVars,
                   plmVars, dmaVars, compute_calls, acc_pulses>>

\* Mutant: Store Stage pulses acc_done between any two batches.
store_output_done_early ==
    /\ store.pc = "batch"
    /\ accelerator_done_raise
    /\ store' = [store EXCEPT !.pc = "pulse"]
    /\ UNCHANGED <<envVars, done, debug, config, load, comp, hsVars, plmVars,
                   dmaVars, compute_calls>>

\* STORE_BATCH_LOOP left: accelerator_done() up to its wait()
store_output_done ==
    /\ store.pc = "batch"
    /\ ~BatchLoopRuns(store.b, store.batch)
    /\ accelerator_done_raise
    /\ store' = [store EXCEPT !.pc = "pulse"]
    /\ UNCHANGED <<envVars, done, debug, config, load, comp, hsVars, plmVars,
                   dmaVars, compute_calls>>

\* accelerator_done() after its wait(): acc_done.write(false); process_done()
accelerator_done_lower ==
    /\ store.pc = "pulse"
    /\ acc_done' = FALSE
    /\ store' = [store EXCEPT !.pc = "parked"]
    /\ UNCHANGED <<envVars, done, debug, config, load, comp, hsVars, plmVars,
                   dmaVars, compute_calls, acc_pulses>>

-----------------------------------------------------------------------------
Next ==
    \/ env_conf_done
    \/ config_accelerator_reset
    \/ CONFIG_LOOP
    \/ load_input_reset
    \/ load_input_config
    \/ LOAD_BATCH_LOOP
    \/ LOAD_DATA_INNER_LOOP
    \/ load_input_write_plm
    \/ load_input_req
    \/ load_input_req_done
    \/ load_input_done
    \/ compute_kernel_reset
    \/ compute_kernel_config
    \/ COMPUTE_BATCH_LOOP
    \/ compute_kernel_compute
    \/ compute_kernel_req
    \/ compute_kernel_req_done
    \/ compute_kernel_done
    \/ store_output_reset
    \/ store_output_config
    \/ STORE_BATCH_LOOP
    \/ store_output_ctrl
    \/ STORE_DATA_INNER_LOOP
    \/ store_output_next
    \/ store_output_done
    \/ accelerator_done_lower

\* The accelerator with conf_info held stable by the configuration source.
Spec == Init /\ [][Next]_vars

\* The position of each thread in its code.
config_pos == config.pc
load_pos == <<load.pc, load.b, load.i>>
comp_pos == <<comp.pc, comp.b>>
store_pos == <<store.pc, store.b, store.i>>

\* The steps of each of the four clocked threads.
config_accelerator == config_accelerator_reset \/ CONFIG_LOOP

load_input ==
    \/ load_input_reset
    \/ load_input_config
    \/ LOAD_BATCH_LOOP
    \/ LOAD_DATA_INNER_LOOP
    \/ load_input_write_plm
    \/ load_input_req
    \/ load_input_req_done
    \/ load_input_done

compute_kernel ==
    \/ compute_kernel_reset
    \/ compute_kernel_config
    \/ COMPUTE_BATCH_LOOP
    \/ compute_kernel_compute
    \/ compute_kernel_req
    \/ compute_kernel_req_done
    \/ compute_kernel_done

store_output ==
    \/ store_output_reset
    \/ store_output_config
    \/ STORE_BATCH_LOOP
    \/ store_output_ctrl
    \/ STORE_DATA_INNER_LOOP
    \/ store_output_next
    \/ store_output_done
    \/ accelerator_done_lower

\* The accelerator with every thread run on every clock edge: a thread that
\* can take a step does not wait forever, and the DMA interfaces always
\* complete a transfer.
\* Every step of a thread moves its position (pc, b or i), so fairness is
\* stated on the positions.
LiveSpec ==
    /\ Init /\ [][Next]_vars
    /\ WF_config_pos(config_accelerator)
    /\ WF_load_pos(load_input)
    /\ WF_comp_pos(compute_kernel)
    /\ WF_store_pos(store_output)

\* The accelerator with conf_info free to change while it runs.
NextEnv == Next \/ env_conf_info

SpecEnv == Init /\ [][NextEnv]_vars

TypeOK ==
    /\ conf_info \in ConfInfo
    /\ conf_done \in BOOLEAN
    /\ done \in BOOLEAN
    /\ acc_done \in BOOLEAN
    /\ debug \in {0, 1}
    /\ conf_changes \in {0, 1}
    /\ load.pc \in {"reset", "config", "batch", "data", "handshake",
                     "req_wait", "parked"}
    /\ comp.pc \in {"reset", "config", "batch", "compute", "handshake",
                     "req_wait", "parked"}
    /\ store.pc \in {"reset", "config", "batch", "ctrl", "data", "pulse",
                      "parked"}
    /\ config.pc \in {"reset", "poll", "parked"}
    /\ load.offset \in 0 .. (UINT32_MOD - 1)
    /\ store.offset \in 0 .. (UINT32_MOD - 1)
    /\ load.i \in 0 .. PLM_SIZE
    /\ store.i \in 0 .. PLM_SIZE
    /\ comp.in_iter \in -1 .. MaxBatch
    /\ store.out_iter \in -1 .. MaxBatch


-----------------------------------------------------------------------------
(* Properties *)

\* 0 <= chunkSize < ChunkCapacity
ValidSize(size) == 0 <= size /\ size < PLM_SIZE

AllParked == load.pc = "parked" /\ comp.pc = "parked" /\ store.pc = "parked"

\* The b-th descriptor (b from 0) of a descriptor sequence starting at
\* offset first, in the uint32 arithmetic of the offset field.
DescriptorAt(first, size, b) ==
    [index |-> (first + b * size) % UINT32_MOD, length |-> size, size |-> 32]

\* C1: for a valid configuration the read descriptors issued so far are the
\* first ones of the sequence offset b*chunkSize, length chunkSize, there are
\* never more than batchCount of them, and once Load Stage has parked there
\* are exactly batchCount.
C1_ReadDescriptors ==
    (~BeforeConfig(load) /\ ValidSize(load.size)) =>
        /\ Len(dma_read_ctrl) <= load.batch
        /\ \A b \in 0 .. (Len(dma_read_ctrl) - 1) :
             dma_read_ctrl[b + 1] = DescriptorAt(0, load.size, b)
        /\ load.pc = "parked" => Len(dma_read_ctrl) = load.batch

C1_Witness ==
    /\ load.pc = "parked"
    /\ load.size = PLM_SIZE - 1
    /\ load.batch = MaxBatch
    /\ Len(dma_read_ctrl) = MaxBatch

\* C2: for a valid configuration the write descriptors issued so far are the
\* first ones of the sequence offset chunkSize*batchCount + b*chunkSize,
\* length chunkSize, there are never more than batchCount of them, and once
\* Store Stage has parked there are exactly batchCount.
C2_WriteDescriptors ==
    (~BeforeConfig(store) /\ ValidSize(store.size)) =>
        /\ Len(dma_write_ctrl) <= store.batch
        /\ \A b \in 0 .. (Len(dma_write_ctrl) - 1) :
             dma_write_ctrl[b + 1] =
                 DescriptorAt(store.size * store.batch, store.size, b)
        /\ store.pc = "parked" => Len(dma_write_ctrl) = store.batch

C2_Witness ==
    /\ store.pc = "parked"
    /\ store.size = PLM_SIZE - 1
    /\ store.batch = MaxBatch
    /\ Len(dma_write_ctrl) = MaxBatch

\* C3: on each handshake channel the number of requests issued minus the
\* number of acknowledges completed is 0 or 1.
C3_HandshakeDepthOne ==
    /\ input_ready.nreq - input_ready.nack \in {0, 1}
    /\ output_ready.nreq - output_ready.nack \in {0, 1}

C3_Witness ==
    /\ input_ready.nreq = MaxBatch
    /\ input_ready.nack = MaxBatch - 1
    /\ output_ready.nreq = MaxBatch - 1
    /\ output_ready.nack = MaxBatch - 2

\* C4: acc_done is raised at most once, it is true only during the one tick
\* of the pulse, Store Stage parks only after the pulse, and for a valid
\* configuration the pulse comes only after all batchCount write descriptors
\* and all chunkSize data words of every batch have been issued.
C4_DonePulse ==
    /\ acc_pulses <= 1
    /\ acc_done <=> store.pc = "pulse"
    /\ acc_pulses = 1 <=> store.pc \in {"pulse", "parked"}
    /\ (acc_pulses = 1 /\ ValidSize(store.size)) =>
           /\ Len(dma_write_ctrl) = store.batch
           /\ Len(dma_write_chnl) = store.batch * store.size

C4_Witness ==
    /\ acc_done
    /\ store.size = PLM_SIZE - 1
    /\ store.batch = MaxBatch
    /\ Len(dma_write_chnl) = MaxBatch * (PLM_SIZE - 1)

\* C5: with an invalid configuration (chunkSize >= ChunkCapacity) no read
\* descriptor, request, acknowledge, transform invocation or write
\* descriptor ever happens, and Store Stage pulses acc_done exactly once
\* before it parks.
C5_InvalidConfiguration ==
    (conf_info.size >= PLM_SIZE) =>
        /\ dma_read_ctrl = <<>> /\ dma_read_chnl = <<>>
        /\ input_ready.nreq = 0 /\ input_ready.nack = 0
        /\ compute_calls = 0
        /\ output_ready.nreq = 0 /\ output_ready.nack = 0
        /\ dma_write_ctrl = <<>> /\ dma_write_chnl = <<>>
        /\ acc_pulses <= 1
        /\ store.pc = "parked" => acc_pulses = 1
        /\ store.pc = "pulse" => acc_pulses = 1

C5_Witness ==
    /\ conf_info.size = PLM_SIZE
    /\ conf_info.batch = MaxBatch
    /\ AllParked
    /\ acc_pulses = 1

\* C6: with batchCount = 0 and a valid chunkSize no request is issued on
\* either channel, no read or write descriptor is issued, and Store Stage
\* pulses acc_done exactly once before it parks.
C6_ZeroBatches ==
    (conf_info.batch = 0 /\ ValidSize(conf_info.size)) =>
        /\ input_ready.nreq = 0
        /\ output_ready.nreq = 0
        /\ dma_read_ctrl = <<>>
        /\ dma_write_ctrl = <<>>
        /\ acc_pulses <= 1
        /\ store.pc = "parked" => acc_pulses = 1

C6_Witness ==
    /\ conf_info.batch = 0
    /\ conf_info.size = PLM_SIZE - 1
    /\ AllParked
    /\ acc_pulses = 1

\* C7: while the ready flag done is not set, no descriptor has been issued,
\* no data word moved, no request or acknowledge has occurred, no transform
\* has been invoked and acc_done has not been pulsed.
C7_NothingBeforeGate ==
    ~done =>
        /\ dma_read_ctrl = <<>> /\ dma_read_chnl = <<>>
        /\ dma_write_ctrl = <<>> /\ dma_write_chnl = <<>>
        /\ input_ready.nreq = 0 /\ input_ready.nack = 0
        /\ output_ready.nreq = 0 /\ output_ready.nack = 0
        /\ compute_calls = 0
        /\ acc_pulses = 0 /\ ~acc_done

C7_Witness ==
    /\ ~done
    /\ conf_done
    /\ config.pc = "poll"
    /\ load.pc = "config" /\ comp.pc = "config" /\ store.pc = "config"

\* C8: once done is true it stays true in every later step, whatever
\* conf_done does, so wait_for_config does not block from then on.
C8_GateLatch == [][done => (done' /\ wait_for_config')]_vars

C8_Witness ==
    /\ done
    /\ ~conf_done
    /\ ~BeforeConfig(load)
    /\ store.pc = "config"

\* The stages that have read the configuration.
Configured == {st \in {load, comp, store} : ~BeforeConfig(st)}

LoadFilled ==
    load.b + (IF load.pc \in {"handshake", "req_wait"} THEN 1 ELSE 0)

\* C10: batch order is preserved: write descriptors <= acknowledges by Store
\* <= requests by Transform <= transform invocations <= acknowledges by
\* Transform <= requests by Load <= buffers filled by Load <= read
\* descriptors.
C10_BatchOrder ==
    /\ Len(dma_write_ctrl) <= output_ready.nack
    /\ output_ready.nack <= output_ready.nreq
    /\ output_ready.nreq <= compute_calls
    /\ compute_calls <= input_ready.nack
    /\ input_ready.nack <= input_ready.nreq
    /\ input_ready.nreq <= LoadFilled
    /\ LoadFilled <= Len(dma_read_ctrl)

C10_Witness ==
    /\ Len(dma_write_ctrl) = 1
    /\ compute_calls = 2
    /\ Len(dma_read_ctrl) = 3

\* C11: a producer never overwrites its shared buffer while the request it
\* made for the previous value is unacknowledged: whenever Load Stage writes
\* plm_in every request on input_ready has been acknowledged, and whenever
\* Transform Stage writes plm_out every request on output_ready has been.
C11_NoOverwriteWhilePending ==
    [][/\ (load.pc = "data" /\ load'.pc = "handshake") =>
              (~input_ready.token /\ input_ready.nreq = input_ready.nack)
       /\ (comp.pc = "compute" /\ comp'.pc = "handshake") =>
              (~output_ready.token /\ output_ready.nreq = output_ready.nack)
      ]_vars

\* Both producers have just overwritten a buffer they had filled before.
C11_Witness ==
    /\ load.pc = "handshake" /\ load.b >= 1
    /\ comp.pc = "handshake" /\ comp.b >= 1

\* C12 as stated: for a valid configuration, chunkSize == 0 included, every
\* read descriptor and every write descriptor has an offset strictly greater
\* than the offset of the descriptor issued before it.
C12_StrictlyIncreasing ==
    /\ (~BeforeConfig(load) /\ ValidSize(load.size)) =>
           \A k \in 1 .. (Len(dma_read_ctrl) - 1) :
               dma_read_ctrl[k + 1].index > dma_read_ctrl[k].index
    /\ (~BeforeConfig(store) /\ ValidSize(store.size)) =>
           \A k \in 1 .. (Len(dma_write_ctrl) - 1) :
               dma_write_ctrl[k + 1].index > dma_write_ctrl[k].index

\* C12: for a valid configuration every read descriptor and every write
\* descriptor has the offset of the descriptor issued before it plus
\* chunkSize, in the uint32 arithmetic of the offset field: strictly greater
\* when chunkSize > 0 and the sum does not wrap, equal when chunkSize == 0.
C12_OffsetsAdvance ==
    /\ (~BeforeConfig(load) /\ ValidSize(load.size)) =>
           \A k \in 1 .. (Len(dma_read_ctrl) - 1) :
               LET prev == dma_read_ctrl[k].index
                   this == dma_read_ctrl[k + 1].index
               IN /\ this = (prev + load.size) % UINT32_MOD
                  /\ (load.size > 0 /\ prev + load.size < UINT32_MOD)
                         => this > prev
                  /\ load.size = 0 => this = prev
    /\ (~BeforeConfig(store) /\ ValidSize(store.size)) =>
           \A k \in 1 .. (Len(dma_write_ctrl) - 1) :
               LET prev == dma_write_ctrl[k].index
                   this == dma_write_ctrl[k + 1].index
               IN /\ this = (prev + store.size) % UINT32_MOD
                  /\ (store.size > 0 /\ prev + store.size < UINT32_MOD)
                         => this > prev
                  /\ store.size = 0 => this = prev

\* Two descriptors on each interface with chunkSize == 0.
C12_Witness ==
    /\ load.size = 0 /\ store.size = 0
    /\ Len(dma_read_ctrl) >= 2
    /\ Len(dma_write_ctrl) >= 2

\* Load Stage has issued the read descriptor of batch b+1 while Store Stage
\* has not yet written all the data words of batch b-1.
PipelineOverlap(b) ==
    /\ ~BeforeConfig(load) /\ ~BeforeConfig(store)
    /\ ValidSize(load.size) /\ load.batch >= 3
    /\ Len(dma_read_ctrl) >= b + 2
    /\ Len(dma_write_chnl) < b * store.size

\* C13: in every state where the stages overlap (Load already fetching batch
\* b+1, Store not done with batch b-1), each channel has at most one
\* outstanding request, the token is up exactly when one is outstanding, and
\* acknowledges are made in issue order: the acknowledge Transform holds in
\* iteration k answers Load's k-th request, the one Store holds in iteration
\* k answers Transform's k-th request.
C13_OverlapKeepsOrder ==
    (\E b \in 1 .. MaxBatch : PipelineOverlap(b)) =>
        /\ input_ready.token <=> input_ready.nreq = input_ready.nack + 1
        /\ ~input_ready.token => input_ready.nreq = input_ready.nack
        /\ output_ready.token <=> output_ready.nreq = output_ready.nack + 1
        /\ ~output_ready.token => output_ready.nreq = output_ready.nack
        /\ comp.pc \in {"compute", "handshake", "req_wait"} =>
               (input_ready.nack = comp.b + 1 /\ comp.in_iter = comp.b)
        /\ store.pc \in {"ctrl", "data"} => output_ready.nack = store.b + 1

\* Load has the descriptor of batch 2 out, Store has written no word of
\* batch 0 yet.
C13_Witness ==
    /\ PipelineOverlap(1)
    /\ Len(dma_write_chnl) = 0
    /\ load.b = 2

\* C14: in its b-th iteration, from the acknowledge on, the input chunk
\* Transform Stage holds (read from plm_in right after the acknowledge) is
\* the one Load Stage wrote in its b-th iteration: it carries that
\* iteration's mark and its valid records are the words of batch b, whatever
\* Load has done to plm_in since.
C14_TransformReadsOwnBatch ==
    (comp.pc \in {"compute", "handshake", "req_wait"}
         /\ ValidSize(comp.size)) =>
        /\ comp.in_iter = comp.b
        /\ \A i \in 0 .. (comp.size - 1) :
               comp.plm_local_in[i] = (comp.b * comp.size + i) % UINT32_MOD

\* Transform still works on batch b >= 1 while Load has already overwritten
\* plm_in with batch b+1.
C14_Witness ==
    /\ comp.pc = "compute" /\ comp.b >= 1 /\ comp.size >= 1
    /\ load.pc = "handshake" /\ load.b = comp.b + 1
    /\ plm_in # comp.plm_local_in

\* C15 as stated: in its b-th iteration the output chunk Store Stage reads
\* from plm_out, after its acknowledge and after issuing the write
\* descriptor, is the one Transform Stage wrote in its b-th iteration: it
\* carries that iteration's mark and is the transform of the words of
\* batch b.
C15_StoreReadsOwnBatch ==
    (store.pc = "data" /\ ValidSize(store.size)) =>
        /\ store.out_iter = store.b
        /\ \A i \in 0 .. (store.size - 1) :
               /\ store.plm_local[i][1] = "softmax"
               /\ store.plm_local[i][2] = i
               /\ \A j \in 0 .. (store.size - 1) :
                      store.plm_local[i][3][j] =
                          (store.b * store.size + j) % UINT32_MOD

\* C16: for every configuration, if conf_done becomes true and stays true,
\* then from some point on all three stages are parked, acc_done has been
\* pulsed exactly once and is low again: no stage stays blocked in a request
\* or an acknowledge.
C16_EventualCompletion ==
    (<>[]conf_done) => <>[](AllParked /\ acc_pulses = 1 /\ ~acc_done)

\* All stages parked after a complete run of MaxBatch batches.
C16_Witness ==
    /\ AllParked /\ acc_pulses = 1 /\ ~acc_done /\ conf_done
    /\ input_ready.nack = MaxBatch
    /\ output_ready.nack = MaxBatch

\* C17: for a valid configuration Load Stage's steps come in the order
\* descriptor, chunkSize data reads, plm_in write, request.  Every data word
\* read belongs to a descriptor already issued (word k of batch n is read at
\* that descriptor's index + k); while batch b is being read the descriptor
\* of b is the last one and i <= chunkSize words of it are read; once the
\* buffer is written exactly chunkSize words of each issued descriptor are
\* read, plm_in holds the words of batch b and the request of b is not made
\* before that; between batches and at the end the count is b*chunkSize,
\* batchCount*chunkSize once parked.
C17_LoadBatchSteps ==
    (~BeforeConfig(load) /\ ValidSize(load.size)) =>
        LET n == Len(dma_read_ctrl)
            words == Len(dma_read_chnl)
        IN /\ words <= n * load.size
           /\ \A k \in 1 .. words :
                  LET d == dma_read_ctrl[((k - 1) \div load.size) + 1]
                  IN dma_read_chnl[k] =
                         (d.index + ((k - 1) % load.size)) % UINT32_MOD
           /\ load.pc = "data" =>
                  /\ n = load.b + 1
                  /\ load.i <= load.size
                  /\ words = load.b * load.size + load.i
                  /\ input_ready.nreq = load.b
           /\ load.pc \in {"handshake", "req_wait"} =>
                  /\ n = load.b + 1
                  /\ words = n * load.size
                  /\ \A i \in 0 .. (load.size - 1) :
                         plm_in[i] = dma_read_chnl[load.b * load.size + i + 1]
                  /\ input_ready.nreq =
                         load.b + (IF load.pc = "req_wait" THEN 1 ELSE 0)
           /\ load.pc = "batch" =>
                  /\ n = load.b
                  /\ words = load.b * load.size
                  /\ input_ready.nreq = load.b
           /\ load.pc = "parked" =>
                  /\ n = load.batch
                  /\ words = load.batch * load.size
                  /\ input_ready.nreq = load.batch

\* Load Stage has requested its second batch of two words each.
C17_Witness ==
    /\ load.pc = "req_wait" /\ load.b = 1 /\ load.size = 2
    /\ Len(dma_read_chnl) = 4

\* C18: for a valid configuration Store Stage's steps come in the order
\* acknowledge, write descriptor, chunkSize data words.  There are never
\* more write descriptors than acknowledges by Store and never more data
\* words than chunkSize per descriptor; after the acknowledge of batch b and
\* before its descriptor, b descriptors and b*chunkSize words are out; while
\* batch b is written its descriptor is the last one and the i <= chunkSize
\* words written for it are records 0 .. i-1 of the buffer Store holds, in
\* index order; every word has the marker in its upper half and an output
\* record of compute() at the word's index in its lower half.
C18_StoreBatchSteps ==
    (~BeforeConfig(store) /\ ValidSize(store.size)) =>
        LET n == Len(dma_write_ctrl)
            words == Len(dma_write_chnl)
        IN /\ n <= output_ready.nack
           /\ words <= n * store.size
           /\ \A k \in 1 .. words :
                  /\ dma_write_chnl[k].hi = "deadbeef"
                  /\ dma_write_chnl[k].lo[1] = "softmax"
                  /\ dma_write_chnl[k].lo[2] = (k - 1) % store.size
           /\ store.pc = "batch" =>
                  /\ output_ready.nack = store.b
                  /\ n = store.b
                  /\ words = store.b * store.size
           /\ store.pc = "ctrl" =>
                  /\ output_ready.nack = store.b + 1
                  /\ n = store.b
                  /\ words = store.b * store.size
           /\ store.pc = "data" =>
                  /\ output_ready.nack = store.b + 1
                  /\ n = store.b + 1
                  /\ store.i <= store.size
                  /\ words = store.b * store.size + store.i
                  /\ \A k \in 0 .. (store.i - 1) :
                         dma_write_chnl[store.b * store.size + k + 1].lo =
                             store.plm_local[k]

\* Store Stage has written both words of its second batch.
C18_Witness ==
    /\ store.pc = "data" /\ store.b = 1 /\ store.size = 2 /\ store.i = 2
    /\ Len(dma_write_chnl) = 4

\* C19 as stated: for a valid configuration no write descriptor's range
\* [offset, offset+length) intersects a read descriptor's range, wrapped
\* offsets included.
C19_RegionsDisjoint ==
    (~BeforeConfig(load) /\ ~BeforeConfig(store) /\ ValidSize(store.size)) =>
        \A r \in 1 .. Len(dma_read_ctrl) :
            \A w \in 1 .. Len(dma_write_ctrl) :
                LET rd == dma_read_ctrl[r]
                    wr == dma_write_ctrl[w]
                IN ~(/\ rd.length > 0 /\ wr.length > 0
                     /\ wr.index < rd.index + rd.length
                     /\ rd.index < wr.index + wr.length)

\* C19: for a valid configuration whose two regions fit below 2^32
\* (2 * chunkSize * batchCount <= 2^32, so that no offset wraps) no write
\* descriptor's range [offset, offset+length) intersects a read descriptor's
\* range.
C19_DisjointWithoutWrap ==
    (/\ ~BeforeConfig(load) /\ ~BeforeConfig(store)
     /\ ValidSize(store.size)
     /\ 2 * store.size * store.batch <= UINT32_MOD) =>
        \A r \in 1 .. Len(dma_read_ctrl) :
            \A w \in 1 .. Len(dma_write_ctrl) :
                LET rd == dma_read_ctrl[r]
                    wr == dma_write_ctrl[w]
                IN \/ rd.length = 0
                   \/ wr.length = 0
                   \/ rd.index + rd.length <= wr.index
                   \/ wr.index + wr.length <= rd.index

\* All descriptors of a run of two batches of two words are out and the two
\* regions fit in the offset range.
C19_Witness ==
    /\ store.size = 2 /\ store.batch = 2
    /\ 2 * store.size * store.batch <= UINT32_MOD
    /\ Len(dma_read_ctrl) = 2
    /\ Len(dma_write_ctrl) = 2

\* C20: in every state where acc_done is true on the valid path, Load Stage
\* has issued batchCount read descriptors and batchCount requests, Transform
\* Stage has made batchCount compute() invocations and batchCount requests,
\* and on both channels every request has been acknowledged and the token is
\* down.
C20_QuiescentAtDone ==
    (acc_done /\ ValidSize(store.size)) =>
        /\ Len(dma_read_ctrl) = store.batch
        /\ input_ready.nreq = store.batch
        /\ compute_calls = store.batch
        /\ output_ready.nreq = store.batch
        /\ input_ready.nack = input_ready.nreq /\ ~input_ready.token
        /\ output_ready.nack = output_ready.nreq /\ ~output_ready.token

\* acc_done is up after MaxBatch batches while Load Stage and Transform
\* Stage have not parked yet.
C20_Witness ==
    /\ acc_done /\ ValidSize(store.size) /\ store.batch = MaxBatch
    /\ load.pc = "batch"
    /\ comp.pc = "batch"

====
